---- MODULE Spec2Model ----
(***************************************************************************)
(* Z9CoachLite (src/app.py): the check-in record lifecycle.                *)
(*                                                                         *)
(* One press of "Analyze My Day" runs, in order: the score computation     *)
(* (external analyzer when imported, local formulas otherwise), the stage  *)
(* suggestion, the assembly of the entry, save_checkin (load the whole     *)
(* log, append, rewrite the whole file), and the rendering of the results  *)
(* and of the recent-history preview, read back from the file.             *)
(*                                                                         *)
(* Floats are fixed-point integers in units of 1/Scale: every value the    *)
(* local formulas produce from integer sliders is a multiple of 1/32, so   *)
(* the arithmetic below is exact where the code's binary floats are.       *)
(***************************************************************************)
EXTENDS Integers, Sequences, FiniteSets

VARIABLES
    CHECKIN_FILE,     \* the store file: [exists, text]; text is a token sequence
    analyzer_present, \* analyze_profile is not None (import at app.py:21-24)
    mapper_present,   \* z9_core.stage.map_disc_to_stage was imported (app.py:27-29)
    pc,               \* position of the button handler: "idle", "persist", "render"
    now,              \* the clock read by datetime.utcnow(), in ticks
    path,             \* branch the score computation took: "none", "core", "raised", "absent"
    entry,            \* the entry assembled by the handler (app.py:248-258)
    success,          \* st.success("Check-in saved and analyzed.") was rendered
    breakdown,        \* the lines of summarize_traits(traits) shown by st.code
    last_items,       \* the records listed by the recent-history preview
    error             \* unhandled error shown to the user: "none" or "write"

vars == <<CHECKIN_FILE, analyzer_present, mapper_present, pc, now, path, entry,
          success, breakdown, last_items, error>>

-----------------------------------------------------------------------------
(* Bounds of the model *)

MaxClock == 3      \* analysis actions per run of Spec
MaxLevel == 3      \* slider positions 0..MaxLevel (times the step) tried by CalcSpec
HistClock == 11    \* analysis actions per run of HistSpec

(* Program constants *)

Scale == 32        \* fixed-point denominator of the modelled floats
SliderStep == 5
SliderMax == 100
HistoryN == 7

Traits == <<"D", "I", "S", "C">>
TraitKeys == {"D", "I", "S", "C"}
None == "None"
Skip == "(skip)"

-----------------------------------------------------------------------------
(* Arithmetic helpers *)

Abs(x) == IF x < 0 THEN -x ELSE x
Max(a, b) == IF a >= b THEN a ELSE b
Min(a, b) == IF a <= b THEN a ELSE b

\* n/d rounded to the nearest integer, ties to even (d > 0): what the
\* format specs {:5.1f} and {:.1f} do to the tenths of a float.
RoundHalfEven(n, d) ==
    LET q == n \div d
        r == n % d
    IN  IF 2 * r > d \/ (2 * r = d /\ q % 2 = 1) THEN q + 1 ELSE q

SumTraits(t) == t["D"] + t["I"] + t["S"] + t["C"]

-----------------------------------------------------------------------------
(* Score Calculator (pure functions of the trait set) *)

\* compute_trait_score: the mean of D/I/S/C, in units of 1/Scale.
compute_trait_score(t) == (SumTraits(t) * Scale) \div 4

\* Mutant: the sample variance (divide by len - 1) instead of the population one.
compute_harmony_ratio_sample(t) ==
    LET S     == SumTraits(t)
        SqDev == (4 * t["D"] - S) * (4 * t["D"] - S) + (4 * t["I"] - S) * (4 * t["I"] - S)
                 + (4 * t["S"] - S) * (4 * t["S"] - S) + (4 * t["C"] - S) * (4 * t["C"] - S)
        raw   == Max(0, 100 * Scale - (4 * SqDev) \div 3)
    IN  IF S = 0 THEN 0 ELSE Max(0, Min(100 * Scale, raw))

\* compute_harmony_ratio, in units of 1/Scale.  With S the sum of the four
\* values, v - mean = (4v - S)/4, so the sum of the squared deviations is
\* SqDev/16, the variance SqDev/64 and variance * 2.0 is SqDev/32 = SqDev/Scale.
compute_harmony_ratio(t) ==
    LET S     == SumTraits(t)
        SqDev == (4 * t["D"] - S) * (4 * t["D"] - S) + (4 * t["I"] - S) * (4 * t["I"] - S)
                 + (4 * t["S"] - S) * (4 * t["S"] - S) + (4 * t["C"] - S) * (4 * t["C"] - S)
        raw   == Max(0, 100 * Scale - SqDev)
    IN  IF S = 0 THEN 0 ELSE Max(0, Min(100 * Scale, raw))

\* The static table of the fallback map_disc_to_stage.
mapping ==
    [k \in TraitKeys |->
        CASE k = "D" -> "Stage 4 - Initiative vs. Guilt"
          [] k = "I" -> "Stage 5 - Identity vs. Role Confusion"
          [] k = "S" -> "Stage 6 - Intimacy vs. Isolation"
          [] k = "C" -> "Stage 7 - Generativity vs. Stagnation"]

\* Mutant: ties go to the last key that attains the maximum.
dominant_last(t) ==
    LET i == CHOOSE j \in 1..4 :
                 /\ \A k \in 1..4 : t[Traits[k]] <= t[Traits[j]]
                 /\ \A k \in (j + 1)..4 : t[Traits[k]] < t[Traits[j]]
    IN  Traits[i]

\* max(traits, key=traits.get): the first key, in insertion order D, I, S, C,
\* whose value is the maximum.
dominant(t) ==
    LET i == CHOOSE j \in 1..4 :
                 /\ \A k \in 1..4 : t[Traits[k]] <= t[Traits[j]]
                 /\ \A k \in 1..(j - 1) : t[Traits[k]] < t[Traits[j]]
    IN  Traits[i]

\* The fallback map_disc_to_stage defined when z9_core.stage cannot be imported.
map_disc_to_stage(t) ==
    IF dominant(t) \in DOMAIN mapping
    THEN mapping[dominant(t)]
    ELSE "Stage 5 - Identity vs. Role Confusion"

TraitName ==
    [k \in TraitKeys |->
        CASE k = "D" -> "Dominance"
          [] k = "I" -> "Influence"
          [] k = "S" -> "Steadiness"
          [] k = "C" -> "Conscientiousness"]

\* sum(traits.values()) or 1.0
TotalOrOne(t) == IF SumTraits(t) = 0 THEN 1 ELSE SumTraits(t)

\* Mutant: "dominant" only strictly above 40%.
TraitLabel_strict(val, total) ==
    IF val * 100 > 40 * total THEN "dominant"
    ELSE IF val * 100 >= 25 * total THEN "supporting"
    ELSE IF val * 100 > 0 THEN "background"
    ELSE "inactive"

\* The label of one trait: pct = (val / total) * 100 against 40, 25 and 0.
TraitLabel(val, total) ==
    IF val * 100 >= 40 * total THEN "dominant"
    ELSE IF val * 100 >= 25 * total THEN "supporting"
    ELSE IF val * 100 > 0 THEN "background"
    ELSE "inactive"

\* One "- D (Dominance):  25.0% -> label" line; pct10 is the percentage as
\* printed by {pct:5.1f}, in tenths.
TraitLine(t, k) ==
    [kind  |-> "trait",
     trait |-> k,
     name  |-> TraitName[k],
     pct10 |-> RoundHalfEven(t[k] * 1000, TotalOrOne(t)),
     label |-> TraitLabel(t[k], TotalOrOne(t))]

TextLine(what) ==
    [kind |-> what, trait |-> "", name |-> "", pct10 |-> 0, label |-> ""]

\* summarize_traits: the header, one line per trait in the order of the
\* list ["D", "I", "S", "C"], then the coaching tip.
summarize_traits(t) ==
    <<TextLine("header")>>
    \o [i \in 1..4 |-> TraitLine(t, Traits[i])]
    \o <<TextLine("tip")>>

-----------------------------------------------------------------------------
(* Check-in Store: the JSON text of the log and its parse *)

\* A float as JSON writes it (repr): sign, integer part, fraction (in 1/Scale).
EncNum(x) == [neg |-> x < 0, whole |-> Abs(x) \div Scale, frac |-> Abs(x) % Scale]
DecNum(j) == (IF j.neg THEN -1 ELSE 1) * (j.whole * Scale + j.frac)

\* None is written as null, a string as a quoted string.
EncOpt(s) == IF s = None THEN [null |-> TRUE, str |-> ""] ELSE [null |-> FALSE, str |-> s]
DecOpt(j) == IF j.null THEN None ELSE j.str

\* json.dumps of one entry (the traits are floats too).
dumps_entry(e) ==
    [timestamp       |-> e.timestamp,
     mood_label      |-> e.mood_label,
     mood_score      |-> e.mood_score,
     mood_notes      |-> e.mood_notes,
     traits          |-> [k \in TraitKeys |-> EncNum(e.traits[k] * Scale)],
     trait_score     |-> EncNum(e.trait_score),
     harmony_ratio   |-> EncNum(e.harmony_ratio),
     perceived_stage |-> EncOpt(e.perceived_stage),
     auto_stage      |-> e.auto_stage]

\* json.loads of one object.
loads_entry(o) ==
    [timestamp       |-> o.timestamp,
     mood_label      |-> o.mood_label,
     mood_score      |-> o.mood_score,
     mood_notes      |-> o.mood_notes,
     traits          |-> [k \in TraitKeys |-> DecNum(o.traits[k]) \div Scale],
     trait_score     |-> DecNum(o.trait_score),
     harmony_ratio   |-> DecNum(o.harmony_ratio),
     perceived_stage |-> DecOpt(o.perceived_stage),
     auto_stage      |-> o.auto_stage]

\* The text of the file is a sequence of tokens: "[", one token per
\* complete object, "]"; "frag" is an object cut short by a partial write.
Tok(kind, objs) == [t |-> kind, o |-> objs]
OpenTok == Tok("[", <<>>)
CloseTok == Tok("]", <<>>)
FragTok == Tok("frag", <<>>)
ObjTok(o) == Tok("obj", <<o>>)

\* json.dumps(entries, indent=2)
json_dumps(entries) ==
    <<OpenTok>>
    \o [i \in 1..Len(entries) |-> ObjTok(dumps_entry(entries[i]))]
    \o <<CloseTok>>

\* json.loads(text): ok is FALSE where the parser raises JSONDecodeError.
json_loads(text) ==
    LET n  == Len(text)
        ok == /\ n >= 2
              /\ text[1] = OpenTok
              /\ text[n] = CloseTok
              /\ \A i \in 2..(n - 1) : text[i].t = "obj"
    IN  [ok    |-> ok,
         value |-> IF ok THEN [i \in 1..(n - 2) |-> loads_entry(text[i + 1].o[1])]
                         ELSE <<>>]

\* Mutant: the parse error is not caught.
load_checkins_outcome_uncaught(file) ==
    IF ~file.exists THEN [raised |-> FALSE, value |-> <<>>]
    ELSE IF json_loads(file.text).ok
         THEN [raised |-> FALSE, value |-> json_loads(file.text).value]
         ELSE [raised |-> TRUE, value |-> <<>>]

\* load_checkins with its outcome made explicit: [] when the file does not
\* exist, the parsed list when it parses, [] when read or parse raises
\* (except Exception: return []).
load_checkins_outcome(file) ==
    IF ~file.exists THEN [raised |-> FALSE, value |-> <<>>]
    ELSE IF json_loads(file.text).ok
         THEN [raised |-> FALSE, value |-> json_loads(file.text).value]
         ELSE [raised |-> FALSE, value |-> <<>>]

load_checkins(file) == load_checkins_outcome(file).value

\* Mutant: the entry alone is written, the loaded list forgotten.
save_checkin_text_overwrite(file, e) == json_dumps(<<e>>)

\* Mutant: the entry is inserted at the front of the loaded list.
save_checkin_text_prepend(file, e) == json_dumps(<<e>> \o load_checkins(file))

\* What save_checkin writes: the loaded list with the entry appended.
save_checkin_text(file, e) == json_dumps(Append(load_checkins(file), e))

\* The contents a write of `text` can leave when it stops part-way: the file
\* was truncated on open, then any proper prefix was written, the next object
\* possibly cut.
PartialWrites(text) ==
    {SubSeq(text, 1, k) : k \in 0..(Len(text) - 1)}
    \cup {SubSeq(text, 1, k) \o <<FragTok>> :
             k \in {j \in 0..(Len(text) - 1) : text[j + 1].t = "obj"}}

\* Mutant: history[:7], the first records instead of the last.
LastN_first(history, n) == SubSeq(history, 1, Min(n, Len(history)))

\* history[-7:] then reversed(...)
LastN(history, n) == SubSeq(history, Max(1, Len(history) - n + 1), Len(history))
Reversed(s) == [i \in 1..Len(s) |-> s[Len(s) - i + 1]]
recent_history(history) == Reversed(LastN(history, HistoryN))

-----------------------------------------------------------------------------
(* The form: widget values read by one run of the script *)

MoodLabels == {"Drained", "Neutral", "Steady", "Energized", "Focused & Inspired"}

mood_score_map ==
    [m \in MoodLabels |->
        CASE m = "Drained" -> 1
          [] m = "Neutral" -> 2
          [] m = "Steady" -> 3
          [] m = "Energized" -> 4
          [] m = "Focused & Inspired" -> 5]

PerceivedChoices ==
    {Skip,
     "Stage 3 - Initiative vs. Guilt",
     "Stage 4 - Industry vs. Inferiority",
     "Stage 5 - Identity vs. Role Confusion",
     "Stage 6 - Intimacy vs. Isolation",
     "Stage 7 - Generativity vs. Stagnation"}

\* Slider positions: multiples of the step up to a level, and the maximum.
TraitVals == {k * SliderStep : k \in 0..MaxLevel} \cup {SliderMax}

MkTraits(d, i, s, c) == [k \in TraitKeys |->
    CASE k = "D" -> d [] k = "I" -> i [] k = "S" -> s [] k = "C" -> c]

MkForm(mood, notes, t, perceived) ==
    [mood_label |-> mood, mood_notes |-> notes, traits |-> t, perceived_stage |-> perceived]

\* Forms submitted in Spec: the slider defaults with nothing else filled in,
\* and one dominant trait with a note and a perceived stage.
Forms ==
    {MkForm("Steady", "", MkTraits(40, 40, 40, 40), Skip),
     MkForm("Drained", "long day", MkTraits(100, 0, 0, 0),
            "Stage 5 - Identity vs. Role Confusion")}

\* Forms submitted in CalcSpec: every combination of the slider positions.
WideForms ==
    {MkForm("Neutral", "", MkTraits(d, i, s, c), Skip) :
        d \in TraitVals, i \in TraitVals, s \in TraitVals, c \in TraitVals}

\* The form submitted in HistSpec.
HistForms == {MkForm("Steady", "", MkTraits(40, 40, 40, 40), Skip)}

\* What a call of the external analyze_profile can do: raise, or return a
\* mapping, whose keys and values this program does not control.
AnalyzerOutcomes ==
    {[kind |-> "raises", profile |-> [k \in {} |-> 0]],
     [kind |-> "returns",
      profile |-> [k \in {"trait_score", "harmony_ratio"} |->
                      IF k = "trait_score" THEN 55 * Scale ELSE 75 * Scale + 16]],
     [kind |-> "returns", profile |-> [k \in {"harmony_ratio"} |-> 150 * Scale]]}

\* profile.get(key, 0.0)
profile_get(profile, key) == IF key \in DOMAIN profile THEN profile[key] ELSE 0

\* Labels the external z9_core.stage.map_disc_to_stage can return (opaque text).
ExternalStages == {mapping["D"], "Stage 8 - Integrity vs. Despair"}

NoEntry ==
    [timestamp |-> 0, mood_label |-> "", mood_score |-> 0, mood_notes |-> "",
     traits |-> MkTraits(0, 0, 0, 0), trait_score |-> 0, harmony_ratio |-> 0,
     perceived_stage |-> None, auto_stage |-> ""]

-----------------------------------------------------------------------------
(* The state after the script is loaded, and the button handler *)

Init ==
    /\ CHECKIN_FILE = [exists |-> FALSE, text |-> <<>>]
    /\ analyzer_present \in BOOLEAN
    /\ mapper_present \in BOOLEAN
    /\ pc = "idle"
    /\ now = 0
    /\ path = "none"
    /\ entry = NoEntry
    /\ success = FALSE
    /\ breakdown = <<>>
    /\ last_items = <<>>
    /\ error = "none"

\* The branch of app.py:226-241 taken with the analyzer's outcome `out`.
ScorePath(out) ==
    IF analyzer_present
    THEN IF out.kind = "raises" THEN "raised" ELSE "core"
    ELSE "absent"

\* Mutant: no fallback in the except branch: the defaults of profile.get
\* stand in for the scores when the call raised.
Scores_no_fallback(t, out) ==
    IF analyzer_present
    THEN [trait_score   |-> profile_get(out.profile, "trait_score"),
          harmony_ratio |-> profile_get(out.profile, "harmony_ratio")]
    ELSE [trait_score   |-> compute_trait_score(t),
          harmony_ratio |-> compute_harmony_ratio(t)]

\* trait_score and harmony_ratio as app.py:226-241 set them.
Scores(t, out) ==
    IF ScorePath(out) = "core"
    THEN [trait_score   |-> profile_get(out.profile, "trait_score"),
          harmony_ratio |-> profile_get(out.profile, "harmony_ratio")]
    ELSE [trait_score   |-> compute_trait_score(t),
          harmony_ratio |-> compute_harmony_ratio(t)]

\* auto_stage as app.py:243-245 sets it: the imported mapper's answer `ext`
\* when z9_core.stage was imported, the fallback otherwise.
AutoStage(t, ext) == IF mapper_present THEN ext ELSE map_disc_to_stage(t)

\* The entry of app.py:248-258, stamped `ts`.
MkEntry(form, out, ext, ts) ==
    [timestamp       |-> ts,
     mood_label      |-> form.mood_label,
     mood_score      |-> mood_score_map[form.mood_label],
     mood_notes      |-> form.mood_notes,
     traits          |-> form.traits,
     trait_score     |-> Scores(form.traits, out).trait_score,
     harmony_ratio   |-> Scores(form.traits, out).harmony_ratio,
     perceived_stage |-> IF form.perceived_stage = Skip THEN None
                         ELSE form.perceived_stage,
     auto_stage      |-> AutoStage(form.traits, ext)]

\* Button pressed: the script reruns (the page is cleared), computes the
\* scores and the stage and assembles the entry.  `cap` bounds the clock.
Analyze(form, out, ext, cap) ==
    /\ pc = "idle"
    /\ now < cap
    /\ now' = now + 1
    /\ path' = ScorePath(out)
    /\ entry' = MkEntry(form, out, ext, now + 1)
    /\ pc' = "persist"
    /\ success' = FALSE
    /\ breakdown' = <<>>
    /\ last_items' = <<>>
    /\ error' = "none"
    /\ UNCHANGED <<CHECKIN_FILE, analyzer_present, mapper_present>>

\* save_checkin(entry) returns: the whole file is rewritten.  Were
\* load_checkins to raise, the handler would end there with the error shown.
SaveOk ==
    /\ pc = "persist"
    /\ IF load_checkins_outcome(CHECKIN_FILE).raised
       THEN /\ error' = "read"
            /\ pc' = "idle"
            /\ UNCHANGED CHECKIN_FILE
       ELSE /\ CHECKIN_FILE' = [exists |-> TRUE,
                                text   |-> save_checkin_text(CHECKIN_FILE, entry)]
            /\ pc' = "render"
            /\ UNCHANGED error
    /\ UNCHANGED <<analyzer_present, mapper_present, now, path, entry,
                   success, breakdown, last_items>>

\* write_text raises OSError: on open (the file is untouched) or after the
\* file was truncated and part of the text written.  Nothing catches it: the
\* script stops and the error is shown.
SaveFail ==
    /\ pc = "persist"
    /\ ~load_checkins_outcome(CHECKIN_FILE).raised
    /\ \/ UNCHANGED CHECKIN_FILE
       \/ \E part \in PartialWrites(save_checkin_text(CHECKIN_FILE, entry)) :
              CHECKIN_FILE' = [exists |-> TRUE, text |-> part]
    /\ error' = "write"
    /\ pc' = "idle"
    /\ UNCHANGED <<analyzer_present, mapper_present, now, path, entry,
                   success, breakdown, last_items>>

\* The process dies during write_text and is started again: the file keeps
\* what had been written, everything in memory is lost.
SaveCrash ==
    /\ pc = "persist"
    /\ ~load_checkins_outcome(CHECKIN_FILE).raised
    /\ \E part \in PartialWrites(save_checkin_text(CHECKIN_FILE, entry)) :
           CHECKIN_FILE' = [exists |-> TRUE, text |-> part]
    /\ pc' = "idle"
    /\ path' = "none"
    /\ entry' = NoEntry
    /\ UNCHANGED <<analyzer_present, mapper_present, now,
                   success, breakdown, last_items, error>>

\* Mutant: the results are rendered before save_checkin is called.
Render_before_save ==
    /\ pc = "persist"
    /\ success' = TRUE
    /\ breakdown' = summarize_traits(entry.traits)
    /\ last_items' = IF load_checkins(CHECKIN_FILE) # <<>>
                     THEN recent_history(load_checkins(CHECKIN_FILE))
                     ELSE <<>>
    /\ UNCHANGED <<CHECKIN_FILE, analyzer_present, mapper_present, pc, now, path,
                   entry, error>>

\* app.py:262-316: the confirmation, the trait breakdown and the preview of
\* the last records, read back from the file.
Render ==
    /\ pc = "render"
    /\ success' = TRUE
    /\ breakdown' = summarize_traits(entry.traits)
    /\ last_items' = IF load_checkins(CHECKIN_FILE) # <<>>
                     THEN recent_history(load_checkins(CHECKIN_FILE))
                     ELSE <<>>
    /\ pc' = "idle"
    /\ UNCHANGED <<CHECKIN_FILE, analyzer_present, mapper_present, now, path,
                   entry, error>>

AnalyzeAny ==
    \E form \in Forms, out \in AnalyzerOutcomes, ext \in ExternalStages :
        Analyze(form, out, ext, MaxClock)

Next == AnalyzeAny \/ SaveOk \/ SaveFail \/ SaveCrash \/ Render

Spec == Init /\ [][Next]_vars

-----------------------------------------------------------------------------
(* The calculator on every slider combination: one analysis action per run *)

CalcAnalyze ==
    \E form \in WideForms, out \in AnalyzerOutcomes, ext \in ExternalStages :
        Analyze(form, out, ext, 1)

CalcNext == CalcAnalyze \/ SaveOk \/ Render

CalcSpec == Init /\ [][CalcNext]_vars

(* A long log: many analysis actions of one form, with the local fallbacks *)

HistInit == Init /\ ~analyzer_present /\ ~mapper_present

HistAnalyze ==
    \E form \in HistForms, out \in AnalyzerOutcomes, ext \in ExternalStages :
        Analyze(form, out, ext, HistClock)

HistNext == HistAnalyze \/ SaveOk \/ SaveFail \/ SaveCrash \/ Render

HistSpec == HistInit /\ [][HistNext]_vars

-----------------------------------------------------------------------------
(* Properties *)

Log == load_checkins(CHECKIN_FILE)
IsPrefix(a, b) == Len(a) <= Len(b) /\ \A i \in 1..Len(a) : a[i] = b[i]
Corrupt(file) == file.exists /\ ~json_loads(file.text).ok
WriteCompletes == pc = "persist" /\ pc' = "render"
LocalPath == path \in {"absent", "raised"}

\* The spec's formulas, written from the sums of the values and of their
\* squares: 16 * variance = 4 * (sum of squares) - (sum)^2.
SumSquares(t) == t["D"] * t["D"] + t["I"] * t["I"] + t["S"] * t["S"] + t["C"] * t["C"]
Variance16(t) == 4 * SumSquares(t) - SumTraits(t) * SumTraits(t)
ExpectedScore4(t) == SumTraits(t)
ExpectedHarmony(t) ==
    IF SumTraits(t) = 0 THEN 0
    ELSE IF 16 * 100 * Scale - 2 * Scale * Variance16(t) < 0 THEN 0
    ELSE (16 * 100 * Scale - 2 * Scale * Variance16(t)) \div 16

\* The label of the first trait, in the order D, I, S, C, that attains the maximum.
FirstMaxLabel(t) ==
    IF t["D"] >= t["I"] /\ t["D"] >= t["S"] /\ t["D"] >= t["C"]
    THEN "Stage 4 - Initiative vs. Guilt"
    ELSE IF t["I"] >= t["S"] /\ t["I"] >= t["C"]
    THEN "Stage 5 - Identity vs. Role Confusion"
    ELSE IF t["S"] >= t["C"]
    THEN "Stage 6 - Intimacy vs. Isolation"
    ELSE "Stage 7 - Generativity vs. Stagnation"

\* A well-formed check-in record written by this program.
IsRecord(e) ==
    /\ e.timestamp \in 1..now
    /\ e.mood_label \in MoodLabels
    /\ e.mood_score \in 1..5
    /\ e.mood_score = mood_score_map[e.mood_label]
    /\ \A k \in TraitKeys : e.traits[k] \in 0..SliderMax
    /\ e.perceived_stage \in (PerceivedChoices \ {Skip}) \cup {None}
    /\ e.auto_stage # ""

\* C1: save_checkin followed by load_checkins yields the list loaded just
\* before with exactly one more element, the last being the appended entry.
C1_AppendThenLoad ==
    [][WriteCompletes =>
          /\ Len(load_checkins(CHECKIN_FILE')) = Len(load_checkins(CHECKIN_FILE)) + 1
          /\ load_checkins(CHECKIN_FILE')[Len(load_checkins(CHECKIN_FILE'))] = entry]_vars

\* C1 witness: an append onto a log that already held a record has returned.
C1_Witness ==
    /\ pc = "render"
    /\ Len(Log) = 2
    /\ Log[2] = entry
    /\ Log[1].timestamp < entry.timestamp

\* C2 as claimed: no step ever removes or changes a stored record, crashes
\* included: the log before any step is a prefix of the log after it.
C2_NeverDeleted ==
    [][IsPrefix(load_checkins(CHECKIN_FILE), load_checkins(CHECKIN_FILE'))]_vars

\* C2 amended: a write that completes keeps the loaded log as an unchanged
\* prefix and adds exactly one record; any other step either leaves the log
\* as loaded unchanged, or is an interrupted write that leaves the store
\* corrupt, after which the log reads as empty (the stored records are lost).
C2_AppendOnlyUnlessInterrupted ==
    [][\/ /\ WriteCompletes
          /\ IsPrefix(load_checkins(CHECKIN_FILE), load_checkins(CHECKIN_FILE'))
          /\ Len(load_checkins(CHECKIN_FILE')) = Len(load_checkins(CHECKIN_FILE)) + 1
       \/ /\ ~WriteCompletes
          /\ load_checkins(CHECKIN_FILE') = load_checkins(CHECKIN_FILE)
       \/ /\ pc = "persist" /\ pc' = "idle"
          /\ Corrupt(CHECKIN_FILE')
          /\ load_checkins(CHECKIN_FILE') = <<>>]_vars

\* C2 witness: an interrupted write left a corrupt store that still holds the
\* text of an earlier record, which load_checkins no longer returns.
C2_Witness ==
    /\ pc = "idle"
    /\ Corrupt(CHECKIN_FILE)
    /\ \E i \in 1..Len(CHECKIN_FILE.text) :
           /\ CHECKIN_FILE.text[i].t = "obj"
           /\ CHECKIN_FILE.text[i].o[1].timestamp < now
    /\ Log = <<>>

\* C3: load_checkins never raises and returns a sequence of records; it
\* returns the empty sequence when the file is missing or does not parse.
C3_LoadNeverRaises ==
    /\ ~load_checkins_outcome(CHECKIN_FILE).raised
    /\ \A i \in 1..Len(Log) : IsRecord(Log[i])
    /\ (~CHECKIN_FILE.exists \/ Corrupt(CHECKIN_FILE)) => Log = <<>>
    /\ (CHECKIN_FILE.exists /\ ~Corrupt(CHECKIN_FILE)) =>
           Len(Log) = Len(CHECKIN_FILE.text) - 2

\* C3 witness: the file exists and ends in an object cut short.
C3_Witness ==
    /\ CHECKIN_FILE.exists
    /\ Len(CHECKIN_FILE.text) >= 3
    /\ CHECKIN_FILE.text[Len(CHECKIN_FILE.text)] = FragTok
    /\ ~load_checkins_outcome(CHECKIN_FILE).raised
    /\ Log = <<>>

\* C4: when the analyzer is absent or its call raised, the entry carries the
\* local composite score and harmony ratio, the handler goes on to save with
\* no error shown, and once the write has returned the entry is the last
\* record of the log.
C4_LocalFallback ==
    LocalPath =>
        /\ 4 * entry.trait_score = ExpectedScore4(entry.traits) * Scale
        /\ entry.harmony_ratio = ExpectedHarmony(entry.traits)
        /\ pc = "persist" => error = "none"
        /\ (pc = "render" \/ success) =>
               /\ error = "none"
               /\ Log # <<>>
               /\ Log[Len(Log)] = entry
        /\ error \in {"none", "write"}

\* C4 witness: the analyzer raised, and the entry with the local scores of
\* the one-dominant-trait form was saved and rendered.
C4_Witness ==
    /\ path = "raised"
    /\ success
    /\ entry.traits = MkTraits(100, 0, 0, 0)
    /\ entry.trait_score = 25 * Scale
    /\ entry.harmony_ratio = 0
    /\ Log[Len(Log)] = entry

\* C5 as claimed: every record in the log has a harmony ratio within [0, 100].
C5_HarmonyInRange ==
    \A i \in 1..Len(Log) :
        Log[i].harmony_ratio >= 0 /\ Log[i].harmony_ratio <= 100 * Scale

\* C6: the local harmony ratio is 0 when the mean is 0 and otherwise
\* 100 - 2 * variance clamped to [0, 100]: exactly 100 when the four values
\* are equal and nonzero, 0 whenever the variance is at least 50.
C6_HarmonyFormula ==
    LocalPath =>
        LET t == entry.traits
            h == entry.harmony_ratio
        IN  /\ h = ExpectedHarmony(t)
            /\ h >= 0 /\ h <= 100 * Scale
            /\ SumTraits(t) = 0 => h = 0
            /\ (SumTraits(t) # 0 /\ Variance16(t) = 0) => h = 100 * Scale
            /\ (SumTraits(t) # 0 /\ Variance16(t) >= 50 * 16) => h = 0
            /\ (SumTraits(t) # 0 /\ Variance16(t) < 50 * 16) =>
                   16 * h = 16 * 100 * Scale - 2 * Scale * Variance16(t)

\* C6 witness: the local formulas on {D:100, I:0, S:0, C:0}: variance 1875,
\* composite score 25, harmony ratio 0.
C6_Witness ==
    /\ path = "absent"
    /\ pc = "persist"
    /\ entry.traits = MkTraits(100, 0, 0, 0)
    /\ Variance16(entry.traits) = 1875 * 16
    /\ entry.trait_score = 25 * Scale
    /\ entry.harmony_ratio = 0

\* C7 as claimed: the auto-suggested stage of every entry is the label of
\* the first trait, in the order D, I, S, C, that attains the maximum.
C7_AlwaysFirstMax ==
    entry # NoEntry => entry.auto_stage = FirstMaxLabel(entry.traits)

\* C7 amended: when z9_core.stage could not be imported, the auto-suggested
\* stage is the label of the first trait, in the order D, I, S, C, that
\* attains the maximum, whether the analyzer is present, absent or raising.
C7_FallbackFirstMax ==
    (~mapper_present /\ entry # NoEntry) =>
        /\ entry.auto_stage = FirstMaxLabel(entry.traits)
        /\ (\A k \in TraitKeys \ {"D"} : entry.traits["D"] > entry.traits[k]) =>
               entry.auto_stage = "Stage 4 - Initiative vs. Guilt"

\* C7 witness: no stage mapper, the analyzer present and used, C tied with S
\* for the maximum: the stage is the label of S.
C7_Witness ==
    /\ ~mapper_present
    /\ path = "core"
    /\ entry.traits["S"] = entry.traits["C"]
    /\ entry.traits["S"] > entry.traits["D"]
    /\ entry.traits["S"] > entry.traits["I"]
    /\ entry.auto_stage = "Stage 6 - Intimacy vs. Isolation"

\* C8: the preview lists the last min(7, length) records of the log, the
\* most recent first: item i is the record at position length - i + 1.
C8_RecentHistory ==
    success =>
        /\ Len(last_items) = Min(HistoryN, Len(Log))
        /\ \A i \in 1..Len(last_items) : last_items[i] = Log[Len(Log) - i + 1]

\* C8 witness: a log of 10 records, previewed as records 10, 9, 8, 7, 6, 5, 4.
C8_Witness ==
    /\ success
    /\ Len(Log) = 10
    /\ last_items = <<Log[10], Log[9], Log[8], Log[7], Log[6], Log[5], Log[4]>>

\* C9: the breakdown has exactly four trait lines, in the order D, I, S, C;
\* with total the sum of the values (1 if the sum is 0) a line is "dominant"
\* when value/total >= 40%, "supporting" when >= 25%, "background" when > 0,
\* else "inactive"; the printed percentage is the share to one decimal, the
\* four printed percentages sum to 100 within rounding when the total is
\* positive, and all four lines are "inactive" when every value is 0.
C9_TraitBreakdown ==
    success =>
        LET lines == SelectSeq(breakdown, LAMBDA l : l.kind = "trait")
            t     == entry.traits
            total == IF SumTraits(t) = 0 THEN 1 ELSE SumTraits(t)
        IN  /\ Len(lines) = 4
            /\ <<lines[1].trait, lines[2].trait, lines[3].trait, lines[4].trait>>
                   = <<"D", "I", "S", "C">>
            /\ \A i \in 1..4 :
                   LET v == t[lines[i].trait]
                   IN  /\ lines[i].label = "dominant" <=> 5 * v >= 2 * total
                       /\ lines[i].label = "supporting" <=>
                              (5 * v < 2 * total /\ 4 * v >= total)
                       /\ lines[i].label = "background" <=> (4 * v < total /\ v > 0)
                       /\ lines[i].label = "inactive" <=> v = 0
                       /\ 2 * Abs(lines[i].pct10 * total - 1000 * v) <= total
            /\ SumTraits(t) > 0 =>
                   Abs(lines[1].pct10 + lines[2].pct10 + lines[3].pct10
                       + lines[4].pct10 - 1000) <= 2
            /\ SumTraits(t) = 0 => \A i \in 1..4 : lines[i].label = "inactive"

\* C9 witness: {D:10, I:5, S:5, C:5}: D holds exactly 40% and is "dominant",
\* the others hold 20% each and are "background".
C9_Witness ==
    /\ success
    /\ entry.traits = MkTraits(10, 5, 5, 5)
    /\ Len(breakdown) = 6
    /\ breakdown[2].label = "dominant" /\ breakdown[2].pct10 = 400
    /\ breakdown[3].label = "background" /\ breakdown[3].pct10 = 200
    /\ breakdown[5].trait = "C"

\* C10: compute, then persist, then render: nothing is shown before the
\* write has returned; the confirmation and the preview are shown only with
\* the new record in the store, the preview's first item being that record;
\* after a failed write the error is shown and neither confirmation nor
\* preview is rendered.
C10_ComputePersistRender ==
    /\ pc = "persist" => (~success /\ last_items = <<>> /\ error = "none")
    /\ pc = "render" => (~success /\ last_items = <<>> /\ Log # <<>>
                         /\ Log[Len(Log)] = entry)
    /\ success =>
           /\ pc = "idle"
           /\ error = "none"
           /\ Log # <<>>
           /\ Log[Len(Log)] = entry
           /\ last_items # <<>>
           /\ last_items[1] = entry
    /\ error # "none" =>
           (error = "write" /\ pc = "idle" /\ ~success /\ last_items = <<>>)

\* C10 witness: the second check-in was saved, then confirmed and previewed
\* with itself first and the earlier record after it.
C10_Witness ==
    /\ success
    /\ Len(last_items) = 2
    /\ last_items[1] = entry
    /\ last_items[2].timestamp < entry.timestamp
    /\ Log[2] = entry

====
